---------------------------- MODULE Spec2Model ----------------------------
(***************************************************************************)
(* A model of the libcanard DSDL compiler core                             *)
(* (dsdl_compiler/libcanard_dsdl_compiler/__init__.py).                     *)
(*                                                                         *)
(* Python str values are sequences of code points, Python int values that  *)
(* may exceed the machine word are little-endian bit sequences.            *)
(*                                                                         *)
(* Four specifications share the module:                                   *)
(*   Spec      the driver run() over several namespace roots and the       *)
(*             files it writes (run, run_parser, run_generator,            *)
(*             write_generated_data);                                      *)
(*   SpecType  type_to_c_type applied to one schema type node;             *)
(*   SpecGen   the metadata part of generate_one_type (c_includes and the  *)
(*             union discriminants) applied to one compound type;          *)
(*   SpecText  the whitespace post-processing of generate_one_type applied *)
(*             to one rendered text.                                       *)
(***************************************************************************)
EXTENDS Integers, Sequences, FiniteSets, TLC

VARIABLES
    fs,         \* the output tree: path -> [exists, data, mode]
    pc,         \* position of run(): idle, parse, generator, type,
                \* write_header, write_code, done, raised
    run,        \* locals of run()/run_generator() and the bookkeeping of the run
    lastCall,   \* what the latest call of write_generated_data did
    node,       \* SpecType: the schema type node handed to type_to_c_type
    desc,       \* SpecType: the dictionary it returned
    ctype,      \* SpecGen: the compound type handed to generate_one_type
    meta,       \* SpecGen: the attributes generate_one_type set on it
    rendered,   \* SpecText: the text the template expander returned
    text        \* SpecText: the text generate_one_type returns

fsVars   == <<fs, pc, run, lastCall>>
typeVars == <<node, desc>>
genVars  == <<ctype, meta>>
textVars == <<rendered, text>>
vars     == <<fs, pc, run, lastCall, node, desc, ctype, meta, rendered, text>>

---------------------------------------------------------------------------
(* Bounds of the model *)

NumRoots     == 3   \* namespace roots in source_dirs
TypesPerRoot == 1   \* compound types the parser returns for a root
MaxRuns      == 2   \* invocations of run() on the same output directory
MaxFaults    == 1   \* failures (parser, generator, operating system) in one history
MaxArraySize == 2   \* SpecType: the largest element count of an array node
NumCompounds == 2   \* SpecGen: compound types a field may reference
MaxDepth     == 1   \* SpecGen: levels of array nesting of a field type
MaxFields    == 2   \* SpecGen: fields of a compound type (request plus response)
MaxTextLen   == 11  \* SpecText: length of a rendered text of letters and newlines
MaxShortLen  == 4   \* SpecText: length of a rendered text over the full alphabet

---------------------------------------------------------------------------
(* Python str as a sequence of code points *)

Ord == [lf |-> 10, cr |-> 13, space |-> 32, dot |-> 46, slash |-> 47,
        zero |-> 48, upperA |-> 65, lbracket |-> 91, rbracket |-> 93,
        underscore |-> 95, lowerA |-> 97, a |-> 97, b |-> 98, c |-> 99,
        d |-> 100, e |-> 101, f |-> 102, h |-> 104, i |-> 105, l |-> 108,
        n |-> 110, o |-> 111, t |-> 116, u |-> 117, x |-> 120, brace |-> 123]

OUTPUT_HEADER_FILE_EXTENSION == <<Ord.h>>
OUTPUT_CODE_FILE_EXTENSION   == <<Ord.c>>
OUTPUT_FILE_PERMISSIONS      == 292      \* 0o444
FILE_CREATE_MODE             == 420      \* 0o666 & ~umask(0o022): a file open() creates

RECURSIVE str(_)
(* str(n) of a non-negative int: its decimal digits *)
str(n) == IF n < 10 THEN <<Ord.zero + n>>
          ELSE str(n \div 10) \o <<Ord.zero + (n % 10)>>

RECURSIVE split(_, _)
(* s.split(ch): the pieces of s between occurrences of ch *)
split(s, ch) ==
    IF \A i \in 1..Len(s) : s[i] # ch THEN <<s>>
    ELSE LET k == CHOOSE i \in 1..Len(s) :
                      s[i] = ch /\ \A j \in 1..(i-1) : s[j] # ch
         IN  <<SubSeq(s, 1, k-1)>> \o split(SubSeq(s, k+1, Len(s)), ch)

RECURSIVE join(_, _)
(* sep.join(parts) *)
join(sep, parts) ==
    IF Len(parts) = 0 THEN <<>>
    ELSE IF Len(parts) = 1 THEN parts[1]
    ELSE parts[1] \o sep \o join(sep, Tail(parts))

(* s.replace(a, b) for single characters a and b *)
replace_char(s, a, b) == [k \in 1..Len(s) |-> IF s[k] = a THEN b ELSE s[k]]

(* os.path.join(a, b) for a relative b *)
path_join(a, b) == a \o <<Ord.slash>> \o b

---------------------------------------------------------------------------
(* Naming of compound types and of their output files *)

get_version_string(t) == join(<<Ord.dot>>, <<str(t.major), str(t.minor)>>)

full_version_name(t) == t.full_name \o <<Ord.dot>> \o get_version_string(t)

type_output_filename(t, extension) ==
    LET name_list == split(t.full_name, Ord.dot)
        n         == Len(name_list)
        renamed   ==
            IF extension = OUTPUT_CODE_FILE_EXTENSION /\ Len(name_list[n-1]) > 0
            THEN [name_list EXCEPT
                    ![n] = join(<<Ord.underscore>>, SubSeq(name_list, n-1, n))]
            ELSE name_list
    IN  join(<<Ord.slash>>, renamed)
          \o join(<<Ord.dot>>, <<(<<>>), get_version_string(t), extension>>)


---------------------------------------------------------------------------
(* The inputs of run(): the types the parser returns for each root *)

Roots == 1..NumRoots

(* The compound type number i of namespace root r, "a.A" version 1.0, ... *)
TypeOf(r, i) ==
    [full_name |-> <<Ord.lowerA + (r - 1), Ord.dot, Ord.upperA + (i - 1)>>,
     major |-> 1, minor |-> i - 1]

(* parse_namespace(source_dir, search_dirs) when it succeeds with types *)
parse_namespace(r) == [i \in 1..TypesPerRoot |-> TypeOf(r, i)]

AllTypes == {TypeOf(r, i) : r \in Roots, i \in 1..TypesPerRoot}

dest_dir == <<Ord.slash, Ord.o>>

header_path_file_name(t) ==
    path_join(dest_dir, type_output_filename(t, OUTPUT_HEADER_FILE_EXTENSION))

code_filename(t) ==
    path_join(dest_dir, type_output_filename(t, OUTPUT_CODE_FILE_EXTENSION))

AllPaths == {header_path_file_name(t) : t \in AllTypes}
              \cup {code_filename(t) : t \in AllTypes}

(* The text the template expander and the post-processing return for t: a   *)
(* function of the type and of the template alone.                          *)
header_text(t) == <<Ord.h, Ord.space>> \o full_version_name(t)
code_text(t)   == <<Ord.c, Ord.space>> \o full_version_name(t)

CRLF == <<Ord.cr, Ord.lf>>

---------------------------------------------------------------------------
(* The file system under dest_dir *)

NoFile == [exists |-> FALSE, data |-> <<>>, mode |-> 0]

(* A file some earlier tool left behind: longer than anything generated *)
StaleData == [i \in 1..24 |-> Ord.x]
StaleFiles == {[exists |-> TRUE, data |-> StaleData, mode |-> m] :
                  m \in {OUTPUT_FILE_PERMISSIONS, FILE_CREATE_MODE}}

(* The owner's write bit, 0o200: what open(.., 'w' or 'a') of an existing  *)
(* file needs for an unprivileged user                                     *)
Writable(mode) == (mode \div 128) % 2 = 1

(* A variant of lines 160-163 that overwrites an existing file in place,   *)
(* without removing or truncating it                                       *)
create_or_replace_in_place(files, filename, data) ==
    LET old  == files[filename].data
        tail == IF Len(old) > Len(data) THEN SubSeq(old, Len(data) + 1, Len(old))
                ELSE <<>>
    IN  [fs      |-> [files EXCEPT ![filename] =
                        [exists |-> TRUE, data |-> data \o tail,
                         mode |-> IF files[filename].exists
                                  THEN files[filename].mode ELSE FILE_CREATE_MODE]],
         raised  |-> FALSE,
         removes |-> 0,
         opens   |-> 1]

(* Lines 160-163: os.remove when the file exists, then open(.., 'w') and   *)
(* write.  Returns the files and the operations performed.                 *)
create_or_replace(files, filename, data) ==
    [fs      |-> [files EXCEPT ![filename] =
                    [exists |-> TRUE, data |-> data, mode |-> FILE_CREATE_MODE]],
     raised  |-> FALSE,
     removes |-> IF files[filename].exists THEN 1 ELSE 0,
     opens   |-> 1]

(* Lines 157-158: open(.., 'a') and write *)
append_to(files, filename, data) ==
    IF files[filename].exists /\ ~Writable(files[filename].mode)
    THEN [fs |-> files, raised |-> TRUE, removes |-> 0, opens |-> 0]
    ELSE [fs      |-> [files EXCEPT ![filename] =
                         [exists |-> TRUE,
                          data   |-> files[filename].data \o data,
                          mode   |-> IF files[filename].exists
                                     THEN files[filename].mode
                                     ELSE FILE_CREATE_MODE]],
          raised  |-> FALSE,
          removes |-> 0,
          opens   |-> 1]

(* A variant of line 165 that locks after every call *)
locks_permissions_always(header_only, append_file) == TRUE

(* Line 165: the condition of the permission lock *)
locks_permissions(header_only, append_file) ==
    (~header_only) \/ (header_only /\ append_file)

(* The outcomes of the operating system a call may meet *)
Envs == {"ok", "makedirs_fails", "chmod_fails"}

(* write_generated_data(filename, data, header_only, append_file)          *)
write_generated_data(files, filename, data, header_only, append_file, env) ==
    IF env = "makedirs_fails"
    THEN [fs |-> files, raised |-> TRUE, removes |-> 0, opens |-> 0,
          chmods |-> 0, warned |-> FALSE]
    ELSE
    LET w == IF append_file THEN append_to(files, filename, data)
             ELSE create_or_replace(files, filename, data)
    IN  IF w.raised
        THEN [fs |-> w.fs, raised |-> TRUE, removes |-> w.removes,
              opens |-> w.opens, chmods |-> 0, warned |-> FALSE]
        ELSE IF locks_permissions(header_only, append_file)
        THEN IF env = "chmod_fails"
             THEN [fs |-> w.fs, raised |-> FALSE, removes |-> w.removes,
                   opens |-> w.opens, chmods |-> 1, warned |-> TRUE]
             ELSE [fs |-> [w.fs EXCEPT ![filename].mode = OUTPUT_FILE_PERMISSIONS],
                   raised |-> FALSE, removes |-> w.removes,
                   opens |-> w.opens, chmods |-> 1, warned |-> FALSE]
        ELSE [fs |-> w.fs, raised |-> FALSE, removes |-> w.removes,
              opens |-> w.opens, chmods |-> 0, warned |-> FALSE]

---------------------------------------------------------------------------
(* The driver: run(source_dirs, include_dirs, output_dir, header_only)      *)

NoCall == [made |-> FALSE, filename |-> <<>>, data |-> <<>>,
           header_only |-> FALSE, append_file |-> FALSE, before |-> NoFile,
           raised |-> FALSE, removes |-> 0, opens |-> 0, chmods |-> 0,
           warned |-> FALSE]

(* A variant of die() whose exception run() would catch per root *)
die_this_root_only(root) ==
    IF root < NumRoots THEN [pc |-> "parse", root |-> root + 1]
    ELSE [pc |-> "raised", root |-> root]

(* die(text): raises DsdlCompilerException; nothing in run() catches it, so *)
(* the exception leaves run().  Gives the position run() continues at.      *)
die(root) == [pc |-> "raised", root |-> root]

(* The dummy values the other specifications' variables keep under Spec *)
Idle == "-"

(* The output directory before the first run: empty, or every output path  *)
(* taken by a foreign file, writable or read-only                           *)
InitFiles ==
    {[p \in AllPaths |-> NoFile]} \cup {[p \in AllPaths |-> f] : f \in StaleFiles}

InitRun == [n |-> 0, faults |-> 0, fatal |-> 0, header_only |-> FALSE, root |-> 0, ti |-> 0,
            removes |-> 0, opens |-> 0, chmods |-> 0,
            created |-> {}, emitted |-> {}, attempted |-> {},
            fs0 |-> [p \in AllPaths |-> NoFile],
            prev_done |-> FALSE, prev_header_only |-> FALSE]

Init ==
    /\ fs \in InitFiles
    /\ pc = "idle"
    /\ run = InitRun
    /\ lastCall = NoCall
    /\ node = Idle /\ desc = Idle
    /\ ctype = Idle /\ meta = Idle
    /\ rendered = Idle /\ text = Idle

Others == UNCHANGED <<typeVars, genVars, textVars>>

(* A step may meet a failure while the history has failures left *)
MayFail == run.faults < MaxFaults
Failed(r) == [r EXCEPT !.faults = @ + 1, !.fatal = r.root]
Fatal(r)  == [r EXCEPT !.fatal = r.root]

(* The caller invokes run() *)
StartRun ==
    /\ pc \in {"idle", "done", "raised"}
    /\ run.n < MaxRuns
    /\ \E ho \in BOOLEAN :
         run' = [run EXCEPT !.n = @ + 1, !.fatal = 0, !.header_only = ho, !.root = 1, !.ti = 0,
                            !.removes = 0, !.opens = 0, !.chmods = 0,
                            !.created = {}, !.emitted = {}, !.attempted = {},
                            !.fs0 = fs,
                            !.prev_done = (pc = "done"),
                            !.prev_header_only = run.header_only]
    /\ pc' = "parse"
    /\ lastCall' = NoCall
    /\ UNCHANGED fs
    /\ Others

(* Lines 65-67: run_parser(source_dir, ..), then the emptiness test *)
RunParser ==
    /\ pc = "parse"
    /\ \E outcome \in {"ParseError", "no_types", "types"} :
         IF outcome = "types"
         THEN /\ pc' = "generator"
              /\ run' = [run EXCEPT !.attempted = @ \cup {run.root}]
         ELSE /\ MayFail
              /\ pc' = die(run.root).pc
              /\ run' = [Failed(run) EXCEPT !.attempted = @ \cup {run.root},
                                            !.root = die(run.root).root]
    /\ UNCHANGED <<fs, lastCall>>
    /\ Others

(* Lines 128-132: the template expanders and makedirs(dest_dir) *)
RunGeneratorBegin ==
    /\ pc = "generator"
    /\ \E ok \in BOOLEAN :
         IF ok
         THEN /\ pc' = "type"
              /\ run' = [run EXCEPT !.ti = 1]
         ELSE /\ MayFail
              /\ pc' = die(run.root).pc
              /\ run' = [Failed(run) EXCEPT !.root = die(run.root).root]
    /\ UNCHANGED <<fs, lastCall>>
    /\ Others

(* Lines 134-141: both texts of the type are generated before any write *)
GenerateTexts ==
    /\ pc = "type"
    /\ \E ok \in BOOLEAN :
         IF ok
         THEN /\ pc' = "write_header"
              /\ run' = run
         ELSE /\ MayFail
              /\ pc' = die(run.root).pc
              /\ run' = [Failed(run) EXCEPT !.root = die(run.root).root]
    /\ UNCHANGED <<fs, lastCall>>
    /\ Others

CurrentType == parse_namespace(run.root)[run.ti]

(* The bookkeeping of one call of write_generated_data *)
Called(filename, data, append_file, w) ==
    [made |-> TRUE, filename |-> filename, data |-> data,
     header_only |-> run.header_only, append_file |-> append_file,
     before |-> fs[filename],
     raised |-> w.raised, removes |-> w.removes, opens |-> w.opens,
     chmods |-> w.chmods, warned |-> w.warned]

Counted(w, filename, env) ==
    [run EXCEPT !.faults = IF env = "ok" THEN @ ELSE @ + 1,
                !.removes = @ + w.removes, !.opens = @ + w.opens,
                !.chmods = @ + w.chmods,
                !.created = IF w.opens > 0 THEN @ \cup {filename} ELSE @]

(* Line 142 *)
WriteHeader ==
    /\ pc = "write_header"
    /\ \E env \in Envs :
         /\ env # "ok" => MayFail
         /\ LET     filename == header_path_file_name(CurrentType)
                 data     == header_text(CurrentType)
                 w == write_generated_data(fs, filename, data, run.header_only, FALSE, env)
             IN  /\ fs' = w.fs
                 /\ lastCall' = Called(filename, data, FALSE, w)
                 /\ IF w.raised
                    THEN /\ pc' = die(run.root).pc
                         /\ run' = [Fatal(Counted(w, filename, env)) EXCEPT !.root = die(run.root).root]
                    ELSE /\ pc' = "write_code"
                         /\ run' = Counted(w, filename, env)
    /\ Others

(* The for statements of lines 133 and 63 after a type is written *)
Advance(r) ==
    IF r.ti < TypesPerRoot THEN [pc |-> "type", root |-> r.root, ti |-> r.ti + 1]
    ELSE IF r.root < NumRoots THEN [pc |-> "parse", root |-> r.root + 1, ti |-> 0]
    ELSE [pc |-> "done", root |-> r.root, ti |-> r.ti]

(* Lines 143-147 *)
WriteCode ==
    /\ pc = "write_code"
    /\ \E env \in Envs :
         /\ env # "ok" => MayFail
         /\ LET     filename == IF run.header_only THEN header_path_file_name(CurrentType)
                             ELSE code_filename(CurrentType)
                 data     == IF run.header_only THEN CRLF \o code_text(CurrentType)
                             ELSE code_text(CurrentType)
                 w == write_generated_data(fs, filename, data, run.header_only,
                                           run.header_only, env)
                 c == Counted(w, filename, env)
             IN  /\ fs' = w.fs
                 /\ lastCall' = Called(filename, data, run.header_only, w)
                 /\ IF w.raised
                    THEN /\ pc' = die(run.root).pc
                         /\ run' = [Fatal(c) EXCEPT !.root = die(run.root).root]
                    ELSE /\ pc' = Advance(run).pc
                         /\ run' = [c EXCEPT !.emitted = @ \cup {CurrentType},
                                             !.root = Advance(run).root,
                                             !.ti = Advance(run).ti]
    /\ Others

Next ==
    \/ StartRun
    \/ RunParser
    \/ RunGeneratorBegin
    \/ GenerateTexts
    \/ WriteHeader
    \/ WriteCode

Spec == Init /\ [][Next]_vars

---------------------------------------------------------------------------
(* Properties of the driver and of write_generated_data (Spec)              *)

Combined(t) == header_text(t) \o CRLF \o code_text(t)

RunEnded == pc \in {"done", "raised"}

Ops == run.removes + run.opens + run.chmods

(* C1: lazy write.  A call of write_generated_data asked to emit what the   *)
(* target file already holds performs no remove, no open for writing and no *)
(* chmod, and a second run of the driver with unchanged inputs performs no  *)
(* such operation at all.                                                   *)
C1_LazyWrite ==
    /\ (lastCall.made /\ ~lastCall.raised /\ ~lastCall.append_file
          /\ lastCall.before.exists /\ lastCall.before.data = lastCall.data)
         => /\ fs[lastCall.filename] = lastCall.before
            /\ lastCall.removes = 0 /\ lastCall.opens = 0 /\ lastCall.chmods = 0
    /\ (pc = "done" /\ run.prev_done /\ run.prev_header_only = run.header_only)
         => Ops = 0

(* C2: header-only mode.  Every type the current run has emitted has one    *)
(* artifact, the header file, holding exactly header_text + "\r\n" +        *)
(* code_text, and the run has created no body file for it.                  *)
C2_HeaderOnlyArtifact ==
    run.header_only =>
      \A t \in run.emitted :
         /\ fs[header_path_file_name(t)].exists
         /\ fs[header_path_file_name(t)].data = Combined(t)
         /\ run.created \cap {header_path_file_name(t), code_filename(t)}
              = {header_path_file_name(t)}

(* A header-only emission over a longer foreign file *)
C2_Witness ==
    /\ run.header_only
    /\ \E t \in run.emitted :
         /\ run.fs0[header_path_file_name(t)].exists
         /\ Len(run.fs0[header_path_file_name(t)].data) > Len(Combined(t))

(* The artifacts of type t as a completed emission leaves them *)
InPlace(t) ==
    IF run.header_only
    THEN fs[header_path_file_name(t)].exists
           /\ fs[header_path_file_name(t)].data = Combined(t)
    ELSE /\ fs[header_path_file_name(t)].exists
         /\ fs[header_path_file_name(t)].data = header_text(t)
         /\ fs[code_filename(t)].exists
         /\ fs[code_filename(t)].data = code_text(t)

TypesOfRoot(r) == {TypeOf(r, i) : i \in 1..TypesPerRoot}

EarlierRootsInPlace ==
    \A r \in Roots : r < run.fatal => \A t \in TypesOfRoot(r) : InPlace(t)

C8_NonAppendLocks ==
    (lastCall.made /\ ~lastCall.raised /\ ~lastCall.append_file) =>
       /\ lastCall.chmods = 1
       /\ (lastCall.warned \/ fs[lastCall.filename].mode = OUTPUT_FILE_PERMISSIONS)

(* C8 amended: a call that returns normally calls chmod exactly when        *)
(* header_only is false or append_file is true; then the file is read-only  *)
(* for all, or chmod failed, a warning is logged and the mode is unchanged; *)
(* in both cases the written content is in place.  The call that is not an  *)
(* append in header-only mode leaves the file writable.                     *)
C8_LockUnlessHeaderOnlyFirstWrite ==
    (lastCall.made /\ ~lastCall.raised) =>
       LET f == fs[lastCall.filename]
       IN  /\ (lastCall.chmods = 1)
                <=> (~lastCall.header_only \/ lastCall.append_file)
           /\ lastCall.chmods = 0 => (~lastCall.warned /\ Writable(f.mode))
           /\ (lastCall.chmods = 1 /\ ~lastCall.warned)
                => f.mode = OUTPUT_FILE_PERMISSIONS
           /\ lastCall.warned => f.mode = FILE_CREATE_MODE
           /\ f.exists
           /\ f.data = IF lastCall.append_file
                       THEN lastCall.before.data \o lastCall.data
                       ELSE lastCall.data

(* The call that is not an append, in header-only mode *)
C8_Witness ==
    /\ lastCall.made /\ ~lastCall.raised
    /\ lastCall.header_only /\ ~lastCall.append_file
    /\ Writable(fs[lastCall.filename].mode)

---------------------------------------------------------------------------
(* Python int of any size: little-endian bits, no leading zero, 0 is <<>>   *)

(* 2 ** n *)
pow2(n) == [k \in 1..(n + 1) |-> IF k = n + 1 THEN 1 ELSE 0]

RECURSIVE normalized(_)
normalized(x) ==
    IF Len(x) > 0 /\ x[Len(x)] = 0 THEN normalized(SubSeq(x, 1, Len(x) - 1)) ELSE x

(* x - 1 for x > 0: the borrow runs up to the lowest set bit *)
minus_one(x) ==
    LET low == CHOOSE k \in 1..Len(x) : x[k] = 1 /\ \A j \in 1..(k - 1) : x[j] = 0
    IN  normalized([k \in 1..Len(x) |->
                      IF k < low THEN 1 ELSE IF k = low THEN 0 ELSE x[k]])

RECURSIVE bit_length(_)
(* int.bit_length() of a small int: the bits of its absolute value *)
bit_length(n) ==
    IF n = 0 THEN 0
    ELSE IF n < 0 THEN bit_length(-n)
    ELSE 1 + bit_length(n \div 2)

---------------------------------------------------------------------------
(* type_to_c_type                                                           *)

MAX_BIT_LENGTH == 64
None == "None"

(* A variant of expand_to_next_full with strict comparisons *)
expand_to_next_full_strict(size) ==
    IF size < 8 THEN 8
    ELSE IF size < 16 THEN 16
    ELSE IF size < 32 THEN 32
    ELSE IF size < 64 THEN 64
    ELSE IF size < 128 THEN 128
    ELSE None

expand_to_next_full(size) ==
    IF size <= 8 THEN 8
    ELSE IF size <= 16 THEN 16
    ELSE IF size <= 32 THEN 32
    ELSE IF size <= 64 THEN 64
    ELSE None

get_max_size(bits, unsigned) ==
    IF unsigned THEN minus_one(pow2(bits)) ELSE minus_one(pow2(bits - 1))

(* Lines 189-192: the saturate flag of the cast mode *)
cast_mode_saturate(t) == t.cast_mode = "SATURATED"

(* A variant of lines 232-235 that keeps the flag of the cast mode *)
integer_saturate_unconditional(t, saturate) == saturate

(* Lines 232-235: do not saturate if the field fills its storage *)
integer_saturate(t, saturate) ==
    IF saturate /\ expand_to_next_full(t.bit_length) = t.bit_length
    THEN FALSE
    ELSE saturate

(* A variant of line 230 that never saturates a Boolean *)
boolean_saturate_never(t, saturate) == FALSE

(* Line 230: a Boolean keeps the flag of its cast mode *)
boolean_saturate(t, saturate) == saturate

Primitives == {"bool", "uint", "int", "float"}
Arrays     == {"static", "dynamic"}

(* c_type of lines 212-216 and 198-202 *)
c_type_name(t) ==
    CASE t.cat = "bool"  -> <<Ord.b, Ord.o, Ord.o, Ord.l>>
      [] t.cat = "uint"  -> <<Ord.u, Ord.i, Ord.n, Ord.t>>
      [] t.cat = "int"   -> <<Ord.i, Ord.n, Ord.t>>
      [] t.cat = "float" ->
           IF t.bit_length = 64
           THEN <<Ord.d, Ord.o, Ord.u, Ord.b, Ord.l, Ord.e>>
           ELSE <<Ord.f, Ord.l, Ord.o, Ord.a, Ord.t>>

(* signedness of lines 217-221 *)
signedness_of(t) == IF t.cat = "int" THEN "true" ELSE "false"

Raised == [raised |-> TRUE]

RECURSIVE type_to_c_type(_)
(* The dictionary type_to_c_type returns, without the c_type_comment text *)
type_to_c_type(t) ==
    IF t.cat \in Primitives
    THEN LET saturate == cast_mode_saturate(t)
         IN  IF t.cat = "float"
             THEN [raised |-> FALSE,
                   c_type |-> c_type_name(t), post_c_type |-> <<>>,
                   bitlen |-> t.bit_length,
                   max_size |-> get_max_size(t.bit_length, FALSE),
                   signedness |-> "false", saturate |-> FALSE]
             ELSE IF t.cat = "bool"
             THEN [raised |-> FALSE,
                   c_type |-> c_type_name(t), post_c_type |-> <<>>,
                   bitlen |-> t.bit_length,
                   max_size |-> get_max_size(t.bit_length, TRUE),
                   signedness |-> signedness_of(t),
                   saturate |-> boolean_saturate(t, saturate)]
             ELSE [raised |-> FALSE,
                   c_type |-> c_type_name(t)
                                \o str(expand_to_next_full(t.bit_length))
                                \o <<Ord.underscore, Ord.t>>,
                   post_c_type |-> <<>>,
                   bitlen |-> t.bit_length,
                   max_size |-> get_max_size(t.bit_length,
                                             signedness_of(t) = "false"),
                   signedness |-> signedness_of(t),
                   saturate |-> integer_saturate(t, saturate)]
    ELSE IF t.cat \in Arrays
    THEN LET values   == type_to_c_type(t.element_type)
             max_size == t.size
         IN  IF values.raised THEN Raised
             ELSE [raised |-> FALSE,
                   c_type |-> values.c_type,
                   post_c_type |-> <<Ord.lbracket>> \o str(max_size) \o <<Ord.rbracket>>,
                   bitlen |-> values.bitlen,
                   array_max_size_bit_len |-> bit_length(max_size),
                   max_size |-> values.max_size,
                   signedness |-> values.signedness,
                   saturate |-> values.saturate,
                   dynamic_array |-> (t.cat = "dynamic"),
                   max_array_elements |-> max_size]
    ELSE IF t.cat = "compound"
    THEN [raised |-> FALSE,
          c_type |-> replace_char(t.full_name \o <<Ord.underscore>>
                                    \o get_version_string(t),
                                  Ord.dot, Ord.underscore),
          post_c_type |-> <<>>,
          bitlen |-> t.bit_length_max,
          max_size |-> <<>>, signedness |-> "false", saturate |-> FALSE]
    ELSE IF t.cat = "void"
    THEN [raised |-> FALSE,
          c_type |-> <<>>, post_c_type |-> <<>>,
          bitlen |-> t.bit_length,
          max_size |-> <<>>, signedness |-> "false", saturate |-> FALSE]
    ELSE Raised

---------------------------------------------------------------------------
(* SpecType: type_to_c_type applied to one schema type node                 *)

CastModes == {"SATURATED", "TRUNCATED"}

PrimitiveNodes ==
    {[cat |-> k, bit_length |-> b, cast_mode |-> m] :
        k \in {"uint", "int"}, b \in 1..MAX_BIT_LENGTH, m \in CastModes}
      \cup {[cat |-> "bool", bit_length |-> 1, cast_mode |-> m] : m \in CastModes}
      \cup {[cat |-> "float", bit_length |-> b, cast_mode |-> m] :
              b \in {16, 32, 64}, m \in CastModes}

CompoundNodes ==
    {[cat |-> "compound", full_name |-> TypeOf(1, 1).full_name,
      major |-> 1, minor |-> 0, bit_length_max |-> b] : b \in {8, 56}}

VoidNodes == {[cat |-> "void", bit_length |-> b] : b \in 1..MAX_BIT_LENGTH}

ScalarNodes == PrimitiveNodes \cup CompoundNodes \cup VoidNodes
                 \cup {[cat |-> "unknown"]}

ArrayNodes ==
    {[cat |-> k, element_type |-> e, size |-> n] :
        k \in Arrays, e \in ScalarNodes \ VoidNodes, n \in 1..MaxArraySize}

TypeNodes == ScalarNodes \cup ArrayNodes

(* No result yet *)
Pending == [pending |-> TRUE]

InitType ==
    /\ node \in TypeNodes
    /\ desc = Pending
    /\ fs = Idle /\ pc = Idle /\ run = Idle /\ lastCall = Idle
    /\ ctype = Idle /\ meta = Idle
    /\ rendered = Idle /\ text = Idle

Resolve ==
    /\ desc = Pending
    /\ desc' = type_to_c_type(node)
    /\ UNCHANGED <<node, fsVars, genVars, textVars>>

NextType == Resolve

SpecType == InitType /\ [][NextType]_vars

(* The integer node a descriptor was resolved from: the node itself or the  *)
(* element type of the array                                                *)
Resolved == desc # Pending /\ ~desc.raised
Field == IF node.cat \in Arrays THEN node.element_type ELSE node
IsInteger == Field.cat \in {"uint", "int"}

StorageWidths == {8, 16, 32, 64}

(* b ones: 2^b - 1 *)
Ones(b) == [k \in 1..b |-> 1]

(* C3: an integer field of declared bit length b gets the smallest storage  *)
(* width of {8,16,32,64} that is >= b, and max_size 2^b - 1 when unsigned,  *)
(* 2^(b-1) - 1 when signed.                                                 *)
C3_StorageWidthAndMaxSize ==
    (Resolved /\ IsInteger) =>
       LET b == Field.bit_length
       IN  /\ \E w \in StorageWidths :
                /\ w >= b
                /\ \A v \in StorageWidths : v >= b => w <= v
                /\ desc.c_type = (IF Field.cat = "uint"
                                  THEN <<Ord.u, Ord.i, Ord.n, Ord.t>>
                                  ELSE <<Ord.i, Ord.n, Ord.t>>)
                                   \o str(w) \o <<Ord.underscore, Ord.t>>
           /\ desc.bitlen = b
           /\ desc.max_size = IF Field.cat = "uint" THEN Ones(b) ELSE Ones(b - 1)

(* An unsigned field narrower than its storage: uint12 in uint16_t *)
C3_Witness ==
    /\ Resolved /\ node.cat = "uint" /\ node.bit_length = 12
    /\ desc.max_size = Ones(12)
    /\ desc.max_size # Ones(16)

(* C4: the saturate flag of an integer field is true exactly when the cast  *)
(* mode is Saturated and b is none of 8, 16, 32, 64.                        *)
C4_SaturateIff ==
    (Resolved /\ IsInteger) =>
       (desc.saturate <=>
          (Field.cast_mode = "SATURATED" /\ Field.bit_length \notin StorageWidths))

(* A saturated field that fills its storage *)
C4_Witness ==
    /\ Resolved /\ node.cat \in {"uint", "int"}
    /\ node.cast_mode = "SATURATED" /\ node.bit_length = 8
    /\ ~desc.saturate

(* C9 as stated: a Boolean field resolves to 'bool' with max_size 1 and a   *)
(* saturate flag that is false for every cast mode.                         *)
C9_BooleanNeverSaturates ==
    (Resolved /\ Field.cat = "bool") =>
       /\ desc.c_type = <<Ord.b, Ord.o, Ord.o, Ord.l>>
       /\ desc.max_size = <<1>>
       /\ ~desc.saturate

(* C9 amended: a Boolean field resolves to 'bool' with max_size 1 and a     *)
(* saturate flag that is that of its cast mode: true when Saturated, false  *)
(* when Truncated.                                                          *)
C9_BooleanSaturateFollowsCastMode ==
    (Resolved /\ Field.cat = "bool") =>
       /\ desc.c_type = <<Ord.b, Ord.o, Ord.o, Ord.l>>
       /\ desc.max_size = <<1>>
       /\ desc.saturate <=> (Field.cast_mode = "SATURATED")

(* A saturated Boolean field *)
C9_Witness ==
    /\ Resolved /\ node.cat = "bool" /\ node.cast_mode = "SATURATED"
    /\ desc.saturate

---------------------------------------------------------------------------
(* generate_one_type: the dependencies and the union discriminants          *)

(* a < b for Python str: the first differing code point decides, a proper   *)
(* prefix is smaller                                                        *)
str_less(a, b) ==
    \E k \in 1..(Len(b)) :
       /\ \A j \in 1..(k - 1) : j <= Len(a) /\ a[j] = b[j]
       /\ (k > Len(a) \/ (k <= Len(a) /\ a[k] < b[k]))
       /\ k - 1 <= Len(a)

RECURSIVE sorted(_)
(* sorted(S) of a set of str: ascending *)
sorted(S) ==
    IF S = {} THEN <<>>
    ELSE LET m == CHOOSE x \in S : \A y \in S : y = x \/ str_less(x, y)
         IN  <<m>> \o sorted(S \ {m})

RECURSIVE detect_include(_)
(* Lines 300-304; a primitive or void type falls off the end: None *)
detect_include(t) ==
    IF t.cat = "compound" THEN type_output_filename(t, OUTPUT_HEADER_FILE_EXTENSION)
    ELSE IF t.cat \in Arrays THEN detect_include(t.element_type)
    ELSE None

(* filter(None, xs): the elements that are true: not None, not '' *)
filter_none(xs) == SelectSeq(xs, LAMBDA x : x # None /\ x # <<>>)

(* A variant of line 305 without set() and sorted() *)
fields_includes_as_listed(fields) ==
    filter_none([k \in 1..Len(fields) |-> detect_include(fields[k].data_type)])

(* Line 305 *)
fields_includes(fields) ==
    LET found == filter_none([k \in 1..Len(fields) |->
                                detect_include(fields[k].data_type)])
    IN  sorted({found[k] : k \in 1..Len(found)})

(* Lines 307-310 *)
c_includes_of(t) ==
    IF t.kind \in {"structure", "union"}
    THEN fields_includes(t.fields)
    ELSE fields_includes(t.request_type.fields \o t.response_type.fields)

(* t.request_fields and t.response_fields of lines 358-362: a ServiceType    *)
(* has request_type and response_type and no such attributes, and nothing   *)
(* in generate_one_type sets them: the lookup raises AttributeError         *)
AttributeError == "AttributeError"
service_attribute(t, name) == AttributeError

(* Python values that may be a bool or an int *)
PyBool(b) == [bool |-> b]
PyInt(n)  == [int |-> n]

(* Python's "a and b" for a bool a and an int b *)
and_then(a, b) == IF a THEN PyInt(b) ELSE PyBool(FALSE)

(* Python's truth of a bool or an int *)
truthy(v) == IF "bool" \in DOMAIN v THEN v.bool ELSE v.int # 0

(* Lines 341-362, the union part: [raised, union] for a structure or a      *)
(* union, [raised, request_union, response_union] for a service             *)
union_attributes(t) ==
    IF t.kind \in {"structure", "union"}
    THEN [raised |-> FALSE,
          union  |-> IF t.kind = "union"
                     THEN PyInt(bit_length(Len(t.fields) - 1))
                     ELSE PyBool(FALSE)]
    ELSE LET request_union == and_then(t.request_type.union,
                                       Len(t.request_type.fields))
             response_fields == service_attribute(t, "response_fields")
             request_fields  == service_attribute(t, "request_fields")
         IN  IF t.response_type.union /\ response_fields = AttributeError
             THEN [raised |-> TRUE]
             ELSE LET response_union ==
                        and_then(t.response_type.union, Len(response_fields))
                  IN  IF truthy(request_union) /\ request_fields = AttributeError
                      THEN [raised |-> TRUE]
                      ELSE [raised |-> FALSE,
                            request_union |->
                               IF truthy(request_union)
                               THEN PyInt(bit_length(Len(request_fields) - 1))
                               ELSE request_union,
                            response_union |->
                               IF truthy(response_union)
                               THEN PyInt(bit_length(Len(response_fields) - 1))
                               ELSE response_union]

(* The attributes generate_one_type has set on t when it returns or raises *)
generate_one_type_attributes(t) ==
    [c_includes |-> c_includes_of(t), unions |-> union_attributes(t)]

---------------------------------------------------------------------------
(* SpecGen: generate_one_type applied to one compound type                  *)

(* The compound type number j a field may reference: b.A, a.B, b.B, a.C ..  *)
RefType(j) ==
    [cat |-> "compound",
     full_name |-> <<Ord.lowerA + (j % 2), Ord.dot, Ord.upperA + (j \div 2)>>,
     major |-> 1, minor |-> 0, bit_length_max |-> 8]

RECURSIVE FieldTypes(_)
(* The field types with at most d levels of array nesting *)
FieldTypes(d) ==
    IF d = 0
    THEN {[cat |-> "uint", bit_length |-> 8, cast_mode |-> "SATURATED"],
          [cat |-> "void", bit_length |-> 8]}
           \cup {RefType(j) : j \in 1..NumCompounds}
    ELSE FieldTypes(d - 1)
           \cup {[cat |-> "dynamic", element_type |-> e, size |-> 2] :
                   e \in {x \in FieldTypes(d - 1) : x.cat # "void"}}

Fields == {[data_type |-> x] : x \in FieldTypes(MaxDepth)}

(* The field lists of at most n fields *)
FieldLists(n) == UNION {[1..k -> Fields] : k \in 0..n}

(* The compound types of at most n fields *)
CompoundTypes(n) ==
    {[kind |-> k, fields |-> f] :
        k \in {"structure", "union"}, f \in FieldLists(n)}
      \cup UNION {
             {[kind |-> "service",
               request_type  |-> [union |-> u1, fields |-> f1],
               response_type |-> [union |-> u2, fields |-> f2]] :
                  u1 \in BOOLEAN, u2 \in BOOLEAN,
                  f1 \in [1..n1 -> Fields], f2 \in FieldLists(n - n1)} :
             n1 \in 0..n}

InitGen ==
    /\ ctype \in CompoundTypes(MaxFields)
    /\ meta = Pending
    /\ fs = Idle /\ pc = Idle /\ run = Idle /\ lastCall = Idle
    /\ node = Idle /\ desc = Idle
    /\ rendered = Idle /\ text = Idle

GenerateOneType ==
    /\ meta = Pending
    /\ meta' = generate_one_type_attributes(ctype)
    /\ UNCHANGED <<ctype, fsVars, typeVars, textVars>>

NextGen == GenerateOneType

SpecGen == InitGen /\ [][NextGen]_vars

Generated == meta # Pending

(* C5: for a union-shaped compound with N >= 1 fields (a union, or the      *)
(* request or the response of a service) generate_one_type does not raise   *)
(* and sets the discriminant width of that type to bit_length(N-1), N being *)
(* the number of fields of that same type.                                  *)
C5_UnionDiscriminant ==
    Generated =>
       /\ (ctype.kind = "union" /\ Len(ctype.fields) >= 1) =>
             /\ ~meta.unions.raised
             /\ meta.unions.union = PyInt(bit_length(Len(ctype.fields) - 1))
       /\ (ctype.kind = "service" /\ ctype.request_type.union
             /\ Len(ctype.request_type.fields) >= 1) =>
             /\ ~meta.unions.raised
             /\ meta.unions.request_union
                  = PyInt(bit_length(Len(ctype.request_type.fields) - 1))
       /\ (ctype.kind = "service" /\ ctype.response_type.union
             /\ Len(ctype.response_type.fields) >= 1) =>
             /\ ~meta.unions.raised
             /\ meta.unions.response_union
                  = PyInt(bit_length(Len(ctype.response_type.fields) - 1))

(* The fields whose types a compound type depends on *)
AllFields ==
    IF ctype.kind = "service"
    THEN ctype.request_type.fields \o ctype.response_type.fields
    ELSE ctype.fields

RECURSIVE Referenced(_)
(* The compound type a field type refers to, through its arrays: a set of   *)
(* at most one                                                              *)
Referenced(x) ==
    CASE x.cat = "compound" -> {x}
      [] x.cat \in Arrays   -> Referenced(x.element_type)
      [] OTHER              -> {}

ReferencedPaths ==
    {type_output_filename(c, OUTPUT_HEADER_FILE_EXTENSION) :
       c \in UNION {Referenced(AllFields[k].data_type) : k \in 1..Len(AllFields)}}

(* C6: c_includes holds exactly the output paths of the compound types the  *)
(* fields reference directly or through arrays (request and response        *)
(* together for a service), each once, in ascending lexicographic order.    *)
C6_Dependencies ==
    Generated =>
       LET inc == meta.c_includes
       IN  /\ {inc[k] : k \in 1..Len(inc)} = ReferencedPaths
           /\ Len(inc) = Cardinality(ReferencedPaths)
           /\ \A i, j \in 1..Len(inc) : i < j => str_less(inc[i], inc[j])

(* Two fields that reference the same compound type, one through an array,  *)
(* after one that references a compound type of a greater path              *)
C6_Witness ==
    /\ Generated
    /\ \E i, j \in 1..Len(AllFields) :
         /\ i < j
         /\ AllFields[i].data_type.cat = "compound"
         /\ AllFields[j].data_type.cat \in Arrays
         /\ Referenced(AllFields[j].data_type) = {AllFields[i].data_type}
    /\ Len(meta.c_includes) = 1

---------------------------------------------------------------------------
(* generate_one_type: the post-processing of the rendered text (366-368)    *)

(* s.splitlines(), the line boundary being "\n": the pieces between the     *)
(* newlines, without an empty piece after a final newline                   *)
splitlines(s) ==
    LET pieces == split(s, Ord.lf)
    IN  IF pieces[Len(pieces)] = <<>>
        THEN SubSeq(pieces, 1, Len(pieces) - 1)
        ELSE pieces

RECURSIVE rstrip(_)
(* x.rstrip(): without its trailing whitespace *)
rstrip(x) ==
    IF Len(x) > 0 /\ x[Len(x)] \in {Ord.space, Ord.lf, Ord.cr}
    THEN rstrip(SubSeq(x, 1, Len(x) - 1))
    ELSE x

RECURSIVE replace(_, _, _)
(* s.replace(old, new): the occurrences of old from the left, not overlapping *)
replace(s, old, new) ==
    IF Len(s) < Len(old) THEN s
    ELSE IF SubSeq(s, 1, Len(old)) = old
    THEN new \o replace(SubSeq(s, Len(old) + 1, Len(s)), old, new)
    ELSE <<s[1]>> \o replace(Tail(s), old, new)

Newlines(n) == [k \in 1..n |-> Ord.lf]

(* Line 366 *)
strip_lines(s) ==
    LET lines == splitlines(s)
    IN  join(<<Ord.lf>>, [k \in 1..Len(lines) |-> rstrip(lines[k])])

(* Line 367 *)
collapse_blank_lines(s) ==
    replace(replace(replace(s, Newlines(5), Newlines(2)),
                    Newlines(4), Newlines(2)),
            Newlines(3), Newlines(2))

(* Lines 366-368 *)
postprocess(s) ==
    replace(collapse_blank_lines(strip_lines(s)),
            <<Ord.brace, Ord.lf, Ord.lf, Ord.space>>,
            <<Ord.brace, Ord.lf, Ord.space>>)

---------------------------------------------------------------------------
(* SpecText: the post-processing applied to one rendered text               *)

Texts(alphabet, n) == UNION {[1..k -> alphabet] : k \in 0..n}

(* Texts of letters and newlines of at most n characters, and texts over    *)
(* the full alphabet of at most m                                           *)
RenderedTexts(n, m) ==
    Texts({Ord.a, Ord.lf}, n)
      \cup Texts({Ord.a, Ord.lf, Ord.space, Ord.brace}, m)

NoText == [pending |-> TRUE]

InitText ==
    /\ rendered \in RenderedTexts(MaxTextLen, MaxShortLen)
    /\ text = NoText
    /\ fs = Idle /\ pc = Idle /\ run = Idle /\ lastCall = Idle
    /\ node = Idle /\ desc = Idle
    /\ ctype = Idle /\ meta = Idle

Postprocess ==
    /\ text = NoText
    /\ text' = [pending |-> FALSE, value |-> postprocess(rendered)]
    /\ UNCHANGED <<rendered, fsVars, typeVars, genVars>>

NextText == Postprocess

SpecText == InitText /\ [][NextText]_vars

(* The lines of a text as the generated file shows them, blank when they    *)
(* hold nothing but whitespace                                              *)
LinesOf(s) == splitlines(s)
Blank(line) == \A k \in 1..Len(line) : line[k] = Ord.space

(* The lengths of the runs of consecutive blank lines that have a line      *)
(* that is not blank before and after them                                  *)
InteriorRuns(lines) ==
    {j - i - 1 : i \in 1..Len(lines), j \in 1..Len(lines)} \cap
    {n \in 1..Len(lines) :
        \E i, j \in 1..Len(lines) :
           /\ j - i - 1 = n
           /\ ~Blank(lines[i]) /\ ~Blank(lines[j])
           /\ \A k \in (i + 1)..(j - 1) : Blank(lines[k])}

(* C10: when the rendered text has a run of 3 or more consecutive blank     *)
(* lines between two lines of text, the returned text has no two            *)
(* consecutive blank lines between two lines of text: every such run is     *)
(* collapsed to one blank line.                                             *)
C10_BlankRunsCollapsed ==
    (text # NoText /\ \E n \in InteriorRuns(LinesOf(rendered)) : n >= 3) =>
       \A n \in InteriorRuns(LinesOf(text.value)) : n <= 1

============================================================================
